---------------------------- MODULE Spec2Model ----------------------------
(***************************************************************************)
(* udhrlen (src/main.rs): extraction of the body text of UDHR documents,   *)
(* measurement of the text under five notions of length, and the summary   *)
(* statistics of the report.                                               *)
(*                                                                         *)
(* A text is a sequence of Unicode scalar values (naturals).  The XML      *)
(* reader is modelled by the sequence of results read_event() yields       *)
(* before Eof.  Two specifications share the actions of count():           *)
(*   SpecCount  one call of count() on an arbitrary bounded document;      *)
(*   Spec       a run of main() over an index and a small corpus.          *)
(***************************************************************************)
EXTENDS Integers, Sequences, FiniteSets, TLC

\* ------------------------------------------------------------------ bounds

\* Longest arbitrary document (reader results before Eof) in SpecCount.
MaxEvents == 4

\* Most documents of the index that a run of main() includes.
MaxDocs == 4

\* ------------------------------------------------------------ text helpers

RECURSIVE Concat(_)
Concat(ss) == IF ss = <<>> THEN <<>> ELSE Head(ss) \o Concat(Tail(ss))

Rep(c, n) == [i \in 1..n |-> c]

\* One item of the raw content of a Text event: a literal character, a
\* character reference (&#...; or a predefined entity) or a malformed escape.
Ch(c) == [k |-> "ch", cp |-> c]
Ref(c) == [k |-> "ref", cp |-> c]
BadRef == [k |-> "bad", cp |-> 0]
Lit(s) == [i \in 1..Len(s) |-> Ch(s[i])]

\* BytesText::unescape_and_decode: every reference is replaced by the
\* character it names; a malformed escape makes the result an Err.
UnescapeAndDecode(raw) ==
    IF \E i \in 1..Len(raw) : raw[i].k = "bad"
    THEN [ok |-> FALSE, s |-> <<>>]
    ELSE [ok |-> TRUE, s |-> [i \in 1..Len(raw) |-> raw[i].cp]]

\* The UTF-8 code units of one scalar value (str::as_bytes, str::len).
Utf8Encode(c) ==
    IF c < 128 THEN <<c>>
    ELSE IF c < 2048 THEN <<192 + (c \div 64), 128 + (c % 64)>>
    ELSE IF c < 65536
         THEN <<224 + (c \div 4096), 128 + ((c \div 64) % 64), 128 + (c % 64)>>
    ELSE <<240 + (c \div 262144), 128 + ((c \div 4096) % 64),
           128 + ((c \div 64) % 64), 128 + (c % 64)>>

AsBytes(s) == Concat([i \in 1..Len(s) |-> Utf8Encode(s[i])])

\* The UTF-16 code units of one scalar value (str::encode_utf16).
Utf16Encode(c) ==
    IF c < 65536 THEN <<c>>
    ELSE <<55296 + ((c - 65536) \div 1024), 56320 + ((c - 65536) % 1024)>>

EncodeUtf16(s) == Concat([i \in 1..Len(s) |-> Utf16Encode(s[i])])

IsAsciiWhitespaceNoSpace(b) == b \in {9, 10, 12, 13}

\* u8::is_ascii_whitespace: space, tab, line feed, form feed, carriage return.
IsAsciiWhitespace(b) == b \in {32, 9, 10, 12, 13}

\* text.as_bytes().iter().all(u8::is_ascii_whitespace)
AllBytesWhitespace(s) ==
    LET b == AsBytes(s) IN \A i \in 1..Len(b) : IsAsciiWhitespace(b[i])

\* Canonical decomposition and primary composition, for the scalar values
\* the documents of the model use (unic_normal's nfc()).
IsCombining(c) == c \in 768..879

Decompose(c) ==
    CASE c = 193 -> <<65, 769>>
      [] c = 225 -> <<97, 769>>
      [] OTHER -> <<c>>

HasComposite(a, b) == b = 769 /\ a \in {65, 97}
Composite(a, b) == IF a = 65 THEN 193 ELSE 225

RECURSIVE ComposeFrom(_, _)
ComposeFrom(done, rest) ==
    IF rest = <<>> THEN done
    ELSE IF done /= <<>> /\ HasComposite(done[Len(done)], Head(rest))
         THEN ComposeFrom(SubSeq(done, 1, Len(done) - 1)
                              \o <<Composite(done[Len(done)], Head(rest))>>,
                          Tail(rest))
    ELSE ComposeFrom(Append(done, Head(rest)), Tail(rest))

Nfc(s) == ComposeFrom(<<>>, Concat([i \in 1..Len(s) |-> Decompose(s[i])]))

\* Extended grapheme clusters: a boundary before every scalar value except
\* an Extend character (GB9) and a line feed after a carriage return (GB3).
GraphemeCount(s) ==
    Cardinality({i \in 1..Len(s) :
        \/ i = 1
        \/ ~(IsCombining(s[i]) \/ (s[i] = 10 /\ s[i - 1] = 13))})

\* UnicodeWidthChar::width, with None (a control character) counted as 0.
CharWidth(c) ==
    IF c < 32 \/ c \in 127..159 THEN 0
    ELSE IF IsCombining(c) THEN 0
    ELSE IF c = 12288 \/ c \in 19968..40959 \/ c \in 127744..128591 THEN 2
    ELSE 1

RECURSIVE SumSeq(_)
SumSeq(s) == IF s = <<>> THEN 0 ELSE Head(s) + SumSeq(Tail(s))

StrWidth(s) == SumSeq([i \in 1..Len(s) |-> CharWidth(s[i])])


\* ----------------------------------------------------------- measurement

\* The Lang value count() returns for the extracted text accu (lines 75-86).
MakeLang(n, c, sc, text) ==
    LET dhr == Nfc(text) IN
    [name |-> n,
     utf8 |-> Len(AsBytes(dhr)),
     utf16 |-> Len(EncodeUtf16(dhr)),
     utf32 |-> Len(dhr),
     graphemes |-> GraphemeCount(dhr),
     width |-> StrWidth(dhr),
     code |-> <<c>>,
     script |-> <<sc>>]

\* ------------------------------------------------------------------ events

Start(n) == [type |-> "Start", name |-> n, text |-> <<>>]
End(n) == [type |-> "End", name |-> n, text |-> <<>>]
Text(raw) == [type |-> "Text", name |-> "", text |-> raw]
\* Every other Ok(_) result: an empty element, a comment, a declaration.
Empty(n) == [type |-> "Empty", name |-> n, text |-> <<>>]
ReaderErr == [type |-> "Err", name |-> "", text |-> <<>>]
Eof == [type |-> "Eof", name |-> "", text |-> <<>>]

BODY == Lit(<<66, 79, 68, 89>>)
SKIP == Lit(<<83, 75, 73, 80>>)
\* A line feed, a space and a referenced space: indentation between elements.
Indent == <<Ch(10), Ch(32), Ref(32)>>
\* Whitespace that is not ASCII: IDEOGRAPHIC SPACE and NO-BREAK SPACE.
WideSpace == Lit(<<12288, 160>>)
Malformed == <<Ch(65), BadRef>>

ElementNames == {"preamble", "note", "para"}
Texts == {BODY, SKIP, Indent, WideSpace, Malformed}

Events ==
    {Start(n) : n \in ElementNames} \cup {End(n) : n \in ElementNames}
        \cup {Text(t) : t \in Texts} \cup {Empty("note"), ReaderErr}

\* The end-to-end document of the specification's scenarios.
ScenarioDoc ==
    <<Start("preamble"), Text(SKIP), End("preamble"), Text(BODY),
      Start("note"), Text(SKIP), End("note")>>

Docs == UNION {[1..n -> Events] : n \in 0..MaxEvents} \cup {ScenarioDoc}

\* ------------------------------------------------------------------- state

VARIABLES
    pc,        \* where main() is: "index", "count", the statistics, the report
    fatal,     \* why the process aborted ("" while it has not)
    langs,     \* main's vector of Lang records
    entry,     \* name, code and script of the index entry being counted
    content,   \* count: the results the reader yields before Eof
    pos,       \* count: how many of them have been read
    accu,      \* count: the accumulated text
    note,      \* count: inside a note element
    preamble,  \* count: inside a preamble element
    stat,      \* per metric: median, min, max, max2
    mean,      \* per metric: the integer mean
    out,       \* the lines and rows printed so far
    row        \* how many records of langs the report loop has printed

vars == <<pc, fatal, langs, entry, content, pos, accu, note, preamble,
          stat, mean, out, row>>

Metrics == {"width", "graphemes", "utf32", "utf16", "utf8"}

NoStat == [m \in Metrics |-> [median |-> 0, min |-> 0, max |-> 0, max2 |-> 0]]
NoMean == [m \in Metrics |-> 0]

\* ------------------------------------------------------- count (lines 26-87)

\* xml.read_event(&mut buf): the next result, Eof once the content is used up.
ReadEvent == IF pos < Len(content) THEN content[pos + 1] ELSE Eof

Panic(why) ==
    /\ pc' = "panic"
    /\ fatal' = why

ExitAlwaysOk(flag) == TRUE
AccumulatingOutsideNote(n, p) == ~n

\* assert!(!preamble), assert!(!note): a region may be entered when its flag
\* is clear; assert!(preamble), assert!(note): left when its flag is set.
EnterOk(flag) == ~flag
ExitOk(flag) == flag

\* if !note && !preamble, line 62.
Accumulating(n, p) == ~n /\ ~p

\* Ok(Event::Start(ref e)), lines 39-49.
CountStart ==
    /\ pc = "count"
    /\ ReadEvent.type = "Start"
    /\ pos' = pos + 1
    /\ CASE ReadEvent.name = "preamble" ->
              IF ~EnterOk(preamble)
              THEN Panic("assert !preamble") /\ UNCHANGED <<preamble, note>>
              ELSE preamble' = TRUE /\ UNCHANGED <<pc, fatal, note>>
         [] ReadEvent.name = "note" ->
              IF ~EnterOk(note)
              THEN Panic("assert !note") /\ UNCHANGED <<preamble, note>>
              ELSE note' = TRUE /\ UNCHANGED <<pc, fatal, preamble>>
         [] OTHER -> UNCHANGED <<pc, fatal, preamble, note>>
    /\ UNCHANGED <<langs, entry, content, accu, stat, mean, out, row>>

\* Ok(Event::End(ref e)), lines 50-60.
CountEnd ==
    /\ pc = "count"
    /\ ReadEvent.type = "End"
    /\ pos' = pos + 1
    /\ CASE ReadEvent.name = "preamble" ->
              IF ~ExitOk(preamble)
              THEN Panic("assert preamble") /\ UNCHANGED <<preamble, note>>
              ELSE preamble' = FALSE /\ UNCHANGED <<pc, fatal, note>>
         [] ReadEvent.name = "note" ->
              IF ~ExitOk(note)
              THEN Panic("assert note") /\ UNCHANGED <<preamble, note>>
              ELSE note' = FALSE /\ UNCHANGED <<pc, fatal, preamble>>
         [] OTHER -> UNCHANGED <<pc, fatal, preamble, note>>
    /\ UNCHANGED <<langs, entry, content, accu, stat, mean, out, row>>

\* Ok(Event::Text(e)), lines 61-68.
CountText ==
    /\ pc = "count"
    /\ ReadEvent.type = "Text"
    /\ pos' = pos + 1
    /\ IF Accumulating(note, preamble)
       THEN LET text == UnescapeAndDecode(ReadEvent.text) IN
            IF ~text.ok
            THEN Panic("unwrap unescape") /\ UNCHANGED accu
            ELSE /\ accu' = IF ~AllBytesWhitespace(text.s)
                            THEN accu \o text.s
                            ELSE accu
                 /\ UNCHANGED <<pc, fatal>>
       ELSE UNCHANGED <<pc, fatal, accu>>
    /\ UNCHANGED <<langs, entry, content, note, preamble, stat, mean, out, row>>

\* Ok(_), line 70.
CountOther ==
    /\ pc = "count"
    /\ ReadEvent.type = "Empty"
    /\ pos' = pos + 1
    /\ UNCHANGED <<pc, fatal, langs, entry, content, accu, note, preamble,
                   stat, mean, out, row>>

\* Err(e), line 71.
CountErr ==
    /\ pc = "count"
    /\ ReadEvent.type = "Err"
    /\ pos' = pos + 1
    /\ Panic("xml error")
    /\ UNCHANGED <<langs, entry, content, accu, note, preamble,
                   stat, mean, out, row>>

\* Ok(Event::Eof) => break, lines 69 and 75-86, and the push of line 209.
CountEof ==
    /\ pc = "count"
    /\ ReadEvent.type = "Eof"
    /\ langs' = Append(langs, MakeLang(entry.name, entry.code, entry.script, accu))
    /\ pc' = "index"
    /\ UNCHANGED <<fatal, entry, content, pos, accu, note, preamble,
                   stat, mean, out, row>>

CountNext ==
    \/ CountStart
    \/ CountEnd
    \/ CountText
    \/ CountOther
    \/ CountErr
    \/ CountEof

\* One call of count() on an arbitrary document, locals as after line 36.
ScenarioEntry == [name |-> <<69, 110>>, code |-> "eng", script |-> "Latn"]

InitCount ==
    /\ pc = "count"
    /\ fatal = ""
    /\ langs = <<>>
    /\ entry = ScenarioEntry
    /\ content \in Docs
    /\ pos = 0
    /\ accu = <<>>
    /\ note = FALSE
    /\ preamble = FALSE
    /\ stat = NoStat
    /\ mean = NoMean
    /\ out = <<>>
    /\ row = 0

SpecCount == InitCount /\ [][CountNext]_vars

\* ------------------------------------------------- the corpus of Spec

Latin == Lit(Rep(97, 30))
Han == Lit(Rep(26085, 10))
Gothic == Lit(Rep(66352, 20))
\* Thirty times a + COMBINING ACUTE ACCENT, which NFC composes.
Accented == Concat(Rep(Lit(<<97, 769>>), 30))

FileName(c) == <<"udhr_", c, ".xml">>

\* The files under the corpus root, each by the results its reader yields.
Files ==
    (FileName("eng") :> <<Start("preamble"), Text(SKIP), End("preamble"),
                          Text(Latin)>>)
    @@ (FileName("jpn") :> <<Text(Indent), Start("para"), Text(Han), End("para")>>)
    @@ (FileName("got") :> <<Empty("note"), Text(Gothic)>>)
    @@ (FileName("vie") :> <<Text(Accented), Start("note"), Text(SKIP), End("note")>>)
    @@ (FileName("nil") :> <<Text(Indent)>>)
    @@ (FileName("unb") :> <<Start("note"), Text(BODY)>>)
    @@ (FileName("bad") :> <<Start("preamble"), Start("preamble")>>)
    @@ (FileName("xml") :> <<Text(BODY), ReaderErr>>)

Codes == {"eng", "jpn", "got", "vie", "nil", "unb", "bad", "xml", "mis"}

\* The attributes of one <udhr/> element of index.xml; stage is the bytes of
\* the stage attribute (none when the attribute is absent).
IndexEntry(n, f, iso, stage) == [n |-> n, f |-> f, iso |-> iso, stage |-> stage]

IndexEntries ==
    {IndexEntry(<<65, 769>>, c, "Latn", <<52>>) : c \in Codes}
        \cup {IndexEntry(<<69, 110>>, "eng", "Latn", st) :
                  st \in {<<53>>, <<51>>, <<52, 53>>, <<>>}}
        \cup {IndexEntry(<<>>, "eng", "Latn", <<52>>),
              IndexEntry(<<69, 110>>, "", "Latn", <<53>>)}

\* stage_ok, line 181.
StageOk(v) == Len(v) = 1 /\ (v[1] = 52 \/ v[1] = 53)

\* ------------------------------------------------- main: the index loop

\* The table's head printed before the statistics are computed.
NextPcHeadFirst(p) ==
    CASE p = "index" -> "head"
      [] p = "head" -> "width"
      [] p = "width" -> "graphemes"
      [] p = "graphemes" -> "utf32"
      [] p = "utf32" -> "utf16"
      [] p = "utf16" -> "utf8"
      [] p = "utf8" -> "totals"
      [] p = "totals" -> "rows"
      [] OTHER -> "done"

\* The statement main() goes on with after the one at p (lines 216-273).
NextPc(p) ==
    CASE p = "index" -> "width"
      [] p = "width" -> "graphemes"
      [] p = "graphemes" -> "utf32"
      [] p = "utf32" -> "utf16"
      [] p = "utf16" -> "utf8"
      [] p = "utf8" -> "head"
      [] p = "head" -> "totals"
      [] p = "totals" -> "rows"
      [] OTHER -> "done"

\* Ok(Event::Empty(ref e)) if e.name() == b"udhr", lines 171-211, with the
\* opening of the document's file and count()'s locals (lines 27-36).
IndexUdhr ==
    /\ pc = "index"
    /\ Len(langs) < MaxDocs
    /\ \E e \in IndexEntries :
          LET name == Nfc(e.n) IN
          IF ~StageOk(e.stage)
          THEN UNCHANGED <<pc, fatal, entry, content, pos, accu, note, preamble>>
          ELSE IF name = <<>>
          THEN Panic("assert !name.is_empty()")
                  /\ UNCHANGED <<entry, content, pos, accu, note, preamble>>
          ELSE IF e.f = ""
          THEN Panic("assert !code.is_empty()")
                  /\ UNCHANGED <<entry, content, pos, accu, note, preamble>>
          ELSE IF FileName(e.f) \notin DOMAIN Files
          THEN /\ pc' = "err"
               /\ fatal' = "io error"
               /\ UNCHANGED <<entry, content, pos, accu, note, preamble>>
          ELSE /\ pc' = "count"
               /\ entry' = [name |-> name, code |-> e.f, script |-> e.iso]
               /\ content' = Files[FileName(e.f)]
               /\ pos' = 0
               /\ accu' = <<>>
               /\ note' = FALSE
               /\ preamble' = FALSE
               /\ UNCHANGED fatal
    /\ UNCHANGED <<langs, stat, mean, out, row>>

\* Err(e), line 214, and a bad attribute, line 199.
IndexErr ==
    /\ pc = "index"
    /\ Panic("index xml error")
    /\ UNCHANGED <<langs, entry, content, pos, accu, note, preamble,
                   stat, mean, out, row>>

\* Ok(Event::Eof) => break, line 212.  (Ok(_), line 213, changes nothing.)
IndexEof ==
    /\ pc = "index"
    /\ pc' = NextPc(pc)
    /\ UNCHANGED <<fatal, langs, entry, content, pos, accu, note, preamble,
                   stat, mean, out, row>>

\* ------------------------------------------------- main: the statistics

\* sort_by is stable: x goes behind every element whose key is not larger.
RECURSIVE Insert(_, _, _)
Insert(s, x, m) ==
    IF s = <<>> THEN <<x>>
    ELSE IF x[m] < Head(s)[m] THEN <<x>> \o s
    ELSE <<Head(s)>> \o Insert(Tail(s), x, m)

\* The vector sorted by its width whatever the metric asked for.
RECURSIVE SortByWidth(_, _)
SortByWidth(s, m) ==
    IF s = <<>> THEN <<>>
    ELSE Insert(SortByWidth(SubSeq(s, 1, Len(s) - 1), m), s[Len(s)], "width")

RECURSIVE SortBy(_, _)
SortBy(s, m) ==
    IF s = <<>> THEN <<>>
    ELSE Insert(SortBy(SubSeq(s, 1, Len(s) - 1), m), s[Len(s)], m)

\* The last element read once more instead of the one before it.
Max2IndexLast(n) == IF n < 1 THEN -1 ELSE n - 1

\* The indices of the four statistics in a vector of n records; -1 where the
\* usize subtraction underflows (a panic in a debug build, an index beyond
\* the vector, hence a panic too, in a release build).
MedianIndex(n) == n \div 2
MinIndex(n) == 0
MaxIndex(n) == IF n < 1 THEN -1 ELSE n - 1
Max2Index(n) == IF n < 2 THEN -1 ELSE n - 2

InBounds(i, n) == 0 <= i /\ i < n

\* langs.sort_by(...) and the four reads behind it, lines 218-247.
Aggregate ==
    /\ pc \in Metrics
    /\ LET sorted == SortBy(langs, pc)
           n == Len(sorted)
       IN /\ langs' = sorted
          /\ IF /\ InBounds(MedianIndex(n), n)
                /\ InBounds(MinIndex(n), n)
                /\ InBounds(MaxIndex(n), n)
                /\ InBounds(Max2Index(n), n)
             THEN /\ stat' = [stat EXCEPT ![pc] =
                                 [median |-> sorted[MedianIndex(n) + 1][pc],
                                  min |-> sorted[MinIndex(n) + 1][pc],
                                  max |-> sorted[MaxIndex(n) + 1][pc],
                                  max2 |-> sorted[Max2Index(n) + 1][pc]]]
                  /\ pc' = NextPc(pc)
                  /\ UNCHANGED fatal
             ELSE /\ Panic("index out of bounds")
                  /\ UNCHANGED stat
    /\ UNCHANGED <<entry, content, pos, accu, note, preamble, mean, out, row>>

\* ------------------------------------------------- main: the report

Line(t) == [tag |-> t, name |-> <<>>, code |-> <<>>, cells |-> <<>>, script |-> <<>>]

\* An f64 quotient of two integers: NaN, an infinity, or the ratio num/den
\* (kept exact; its rounding changes neither its sign nor whether it is 0).
F64Div(num, den) ==
    IF den = 0
    THEN [k |-> IF num = 0 THEN "NaN" ELSE IF num > 0 THEN "inf" ELSE "-inf",
          num |-> 0, den |-> 0]
    ELSE [k |-> "fin", num |-> num, den |-> den]

\* x * 100.0
F64Times100(x) == IF x.k = "fin" THEN [x EXCEPT !.num = x.num * 100] ELSE x

\* (1.0 - x).powf(0.75) * 100.0, kept as the ratio under the power.
Saturation(x) ==
    IF x.k = "fin" THEN [k |-> "pow", num |-> x.den - x.num, den |-> x.den]
    ELSE [k |-> "NaN", num |-> 0, den |-> 0]

\* The hue of the two branches of colorize, lines 91 and 93.
HueAbove == 0
HueNotAbove == 120

\* The two hues exchanged.
ColorizeSwapped(baseline_result, comparison_result) ==
    IF baseline_result < comparison_result
    THEN [hue |-> HueNotAbove,
          saturation |-> Saturation(F64Div(baseline_result, comparison_result))]
    ELSE [hue |-> HueAbove,
          saturation |-> Saturation(F64Div(comparison_result, baseline_result))]

\* colorize, lines 89-96.
Colorize(baseline_result, comparison_result) ==
    IF baseline_result < comparison_result
    THEN [hue |-> HueAbove,
          saturation |-> Saturation(F64Div(baseline_result, comparison_result))]
    ELSE [hue |-> HueNotAbove,
          saturation |-> Saturation(F64Div(comparison_result, baseline_result))]

\* deviation_percent, lines 98-103.
DeviationPercent(value, median) == F64Times100(F64Div(value - median, median))

\* print_count, lines 105-119: the two cells of one metric.
PrintCount(count, median) ==
    LET c == Colorize(median, count) IN
    [count |-> count, hue |-> c.hue, saturation |-> c.saturation,
     dev |-> DeviationPercent(count, median)]

\* The columns of a row, in the order print_lang prints them.
MetricOrder == <<"utf8", "utf16", "utf32", "graphemes", "width">>

\* print_lang, lines 121-151.
PrintLang(lang, medians) ==
    [tag |-> "tr", name |-> lang.name, code |-> lang.code,
     cells |-> [i \in 1..Len(MetricOrder) |->
                   PrintCount(lang[MetricOrder[i]], medians[MetricOrder[i]])],
     script |-> lang.script]

Medians == [m \in Metrics |-> stat[m].median]

\* A Lang of the table's foot: no code, no script.
FootLang(n, v) ==
    [name |-> n, utf8 |-> v["utf8"], utf16 |-> v["utf16"], utf32 |-> v["utf32"],
     graphemes |-> v["graphemes"], width |-> v["width"],
     code |-> <<>>, script |-> <<>>]

\* Lines 249-253.
PrintHead ==
    /\ pc = "head"
    /\ out' = out \o <<Line("table"), Line("thead"), Line("tr th"),
                       Line("/thead"), Line("tbody")>>
    /\ pc' = NextPc(pc)
    /\ UNCHANGED <<fatal, langs, entry, content, pos, accu, note, preamble,
                   stat, mean, row>>

\* Lines 255-271: the totals and the integer means.  (The usize sums stay
\* far below 2^64 for texts that fit in memory, so they are plain sums.)
Totals ==
    /\ pc = "totals"
    /\ IF Len(langs) = 0
       THEN Panic("divide by zero") /\ UNCHANGED mean
       ELSE /\ mean' = [m \in Metrics |->
                           SumSeq([i \in 1..Len(langs) |-> langs[i][m]])
                               \div Len(langs)]
            /\ pc' = NextPc(pc)
            /\ UNCHANGED fatal
    /\ UNCHANGED <<langs, entry, content, pos, accu, note, preamble,
                   stat, out, row>>

\* One turn of for lang in langs, lines 273-282.
PrintRow ==
    /\ pc = "rows"
    /\ row < Len(langs)
    /\ out' = Append(out, PrintLang(langs[row + 1], Medians))
    /\ row' = row + 1
    /\ UNCHANGED <<pc, fatal, langs, entry, content, pos, accu, note, preamble,
                   stat, mean>>

\* Lines 284-357: the foot of the table.
PrintFoot ==
    /\ pc = "rows"
    /\ row = Len(langs)
    /\ out' = out \o
          <<Line("/tbody"), Line("tfoot"),
            PrintLang(FootLang(<<77, 105, 110>>, [m \in Metrics |-> stat[m].min]),
                      Medians),
            [Line("median") EXCEPT
                !.cells = [i \in 1..Len(MetricOrder) |->
                              [count |-> Medians[MetricOrder[i]]]]],
            PrintLang(FootLang(<<77, 101, 97, 110>>, mean), Medians),
            PrintLang(FootLang(<<77, 97, 120, 32, 40, 105, 103, 110, 111, 114,
                                 105, 110, 103, 32, 111, 117, 116, 108, 105,
                                 101, 114, 41>>,
                               [m \in Metrics |-> stat[m].max2]), Medians),
            PrintLang(FootLang(<<77, 97, 120>>, [m \in Metrics |-> stat[m].max]),
                      Medians),
            Line("/tfoot"), Line("/table")>>
    /\ pc' = NextPc(pc)
    /\ UNCHANGED <<fatal, langs, entry, content, pos, accu, note, preamble,
                   stat, mean, row>>

\* ------------------------------------------------- the run of main()

Init ==
    /\ pc = "index"
    /\ fatal = ""
    /\ langs = <<>>
    /\ entry = ScenarioEntry
    /\ content = <<>>
    /\ pos = 0
    /\ accu = <<>>
    /\ note = FALSE
    /\ preamble = FALSE
    /\ stat = NoStat
    /\ mean = NoMean
    /\ out = <<>>
    /\ row = 0

Next ==
    \/ IndexUdhr
    \/ IndexErr
    \/ IndexEof
    \/ CountStart
    \/ CountEnd
    \/ CountText
    \/ CountOther
    \/ CountErr
    \/ CountEof
    \/ Aggregate
    \/ PrintHead
    \/ Totals
    \/ PrintRow
    \/ PrintFoot

Spec == Init /\ [][Next]_vars

\* ------------------------------------------------- properties of count()

Decoded(i) == UnescapeAndDecode(content[i].text).s

\* How many regions of the kind are open before the i-th result.
OpenBefore(kind, i) ==
    Cardinality({j \in 1..(i - 1) : content[j] = Start(kind)})
        - Cardinality({j \in 1..(i - 1) : content[j] = End(kind)})

OnlyAsciiWhitespace(s) == \A i \in 1..Len(s) : s[i] \in {9, 10, 12, 13, 32}

\* White_Space of the Unicode character database (char::is_whitespace).
IsUnicodeWhitespace(c) ==
    \/ c \in {9, 10, 11, 12, 13, 32, 133, 160, 5760, 8232, 8233, 8239, 8287, 12288}
    \/ c \in 8192..8202

OnlyWhitespace(s) == \A i \in 1..Len(s) : IsUnicodeWhitespace(s[i])

Contributes(i) ==
    /\ content[i].type = "Text"
    /\ OpenBefore("preamble", i) = 0
    /\ OpenBefore("note", i) = 0
    /\ ~OnlyAsciiWhitespace(Decoded(i))

ExpectedText(n) ==
    Concat([i \in 1..n |-> IF Contributes(i) THEN Decoded(i) ELSE <<>>])

\* C1: while count() has not aborted, and when it returns at Eof, the
\* accumulated text is the in-order concatenation of exactly the Text events
\* read with no preamble and no note region open that are not made of ASCII
\* whitespace only, whatever other elements are open; the scenario document
\* yields exactly BODY (4 code points, 4 graphemes).
C1_ExtractsBodyText ==
    /\ pc \in {"count", "index"} => accu = ExpectedText(pos)
    /\ (pc = "index" /\ content = ScenarioDoc) =>
           /\ accu = <<66, 79, 68, 89>>
           /\ langs[1].utf32 = 4
           /\ langs[1].graphemes = 4

C1_Witness ==
    /\ pc = "index"
    /\ content = ScenarioDoc
    /\ pos = Len(ScenarioDoc)
    /\ Len(langs) = 1
    /\ accu = <<66, 79, 68, 89>>

IllegalTransition ==
    /\ pc = "count"
    /\ \/ ReadEvent = Start("preamble") /\ preamble
       \/ ReadEvent = Start("note") /\ note
       \/ ReadEvent = End("preamble") /\ ~preamble
       \/ ReadEvent = End("note") /\ ~note

\* C2: entering a region whose flag is set and leaving a region whose flag is
\* clear abort the extraction, and the aborted document yields no record;
\* entering one kind of region while only the other kind is open is legal.
C2_IllegalTransitionsAreFatal ==
    /\ [](pc = "panic" => langs = <<>>)
    /\ [][/\ IllegalTransition => (pc' = "panic" /\ langs' = langs)
          /\ pc = "panic" => (pc' = "panic" /\ langs' = langs)
          /\ (pc = "count" /\ ReadEvent = Start("preamble") /\ ~preamble /\ note)
                => (pc' = "count" /\ preamble' /\ note')
          /\ (pc = "count" /\ ReadEvent = Start("note") /\ ~note /\ preamble)
                => (pc' = "count" /\ preamble' /\ note')]_vars

C2_Witness ==
    /\ pc = "panic"
    /\ fatal = "assert !note"
    /\ pos = 3
    /\ content[1] = Start("note")
    /\ content[2] = Start("preamble")
    /\ content[3] = Start("note")
    /\ preamble
    /\ note
    /\ langs = <<>>

\* C3: whenever count() reaches Eof and returns a record, the preamble flag
\* and the note flag are both clear (a region left open aborts instead).
C3_UnbalancedIsFatal == pc = "index" => (~preamble /\ ~note)

\* C4 as claimed: a Text event whose decoded content is made of whitespace
\* only, ASCII or not, leaves the accumulator unchanged.
C4_AnyWhitespaceSkipped ==
    [][(/\ pc = "count"
        /\ ReadEvent.type = "Text"
        /\ UnescapeAndDecode(ReadEvent.text).ok
        /\ OnlyWhitespace(UnescapeAndDecode(ReadEvent.text).s))
          => accu' = accu]_vars

\* C4: a Text event whose decoded content is made of ASCII whitespace only
\* (space, tab, line feed, form feed, carriage return) leaves the accumulator
\* unchanged, also when both exclusion flags are clear; a fragment with any
\* other character, whitespace or not, read with both flags clear is appended.
C4_AsciiWhitespaceSkipped ==
    [][(/\ pc = "count"
        /\ ReadEvent.type = "Text"
        /\ UnescapeAndDecode(ReadEvent.text).ok)
          => IF OnlyAsciiWhitespace(UnescapeAndDecode(ReadEvent.text).s)
             THEN accu' = accu
             ELSE (~note /\ ~preamble)
                     => accu' = accu \o UnescapeAndDecode(ReadEvent.text).s]_vars

C4_Witness ==
    /\ pc = "count"
    /\ pos = 2
    /\ content[1] = Text(BODY)
    /\ content[2] = Text(Indent)
    /\ ~note
    /\ ~preamble
    /\ accu = <<66, 79, 68, 89>>

\* ------------------------------------------------- properties of main()

PcOrder ==
    <<"index", "width", "graphemes", "utf32", "utf16", "utf8", "head",
      "totals", "rows", "done">>

Rank(p) == CHOOSE i \in 1..Len(PcOrder) : PcOrder[i] = p

InOrder(p) == \E i \in 1..Len(PcOrder) : PcOrder[i] = p

\* main() has passed the statistics of metric m.
StatReady(m) == InOrder(pc) /\ Rank(pc) > Rank(m)

MeansReady == pc \in {"rows", "done"}

ValuesOf(m) == {langs[i][m] : i \in 1..Len(langs)}

\* The value at 0-based position k of the ascending order of metric m, by
\* counting: fewer than k+1 values are smaller, at least k+1 are not larger.
RefAt(m, k) ==
    CHOOSE v \in ValuesOf(m) :
        /\ Cardinality({i \in 1..Len(langs) : langs[i][m] < v}) <= k
        /\ Cardinality({i \in 1..Len(langs) : langs[i][m] <= v}) > k

RefSum(m) == SumSeq([i \in 1..Len(langs) |-> langs[i][m]])

\* C5: for a record set of one or more records the aggregation completes,
\* with min <= median <= max and max2 <= max for each metric.
C5_AggregatesAnyNonEmptySet ==
    /\ Len(langs) >= 1 => fatal /= "index out of bounds"
    /\ \A m \in Metrics :
          StatReady(m) =>
              /\ stat[m].min <= stat[m].median
              /\ stat[m].median <= stat[m].max
              /\ stat[m].max2 <= stat[m].max

\* C6 as claimed: max2 < max whenever the metric takes two distinct values.
C6_StrictWithTwoDistinctValues ==
    \A m \in Metrics :
        (StatReady(m) /\ Cardinality(ValuesOf(m)) >= 2)
            => stat[m].max2 < stat[m].max

\* C6: max2 <= max, and max2 < max exactly when the largest value of the
\* metric occurs in one record only.
C6_StrictIffLargestOccursOnce ==
    \A m \in Metrics :
        StatReady(m) =>
            /\ stat[m].max2 <= stat[m].max
            /\ stat[m].max2 < stat[m].max <=>
                   Cardinality({i \in 1..Len(langs) :
                       \A j \in 1..Len(langs) : langs[j][m] <= langs[i][m]}) = 1

C6_Witness ==
    /\ StatReady("graphemes")
    /\ Len(langs) = 3
    /\ ValuesOf("graphemes") = {10, 30}
    /\ stat["graphemes"].max = 30
    /\ stat["graphemes"].max2 = 30

\* C7: for two or more records and each metric, the statistics are those of
\* the metric's own ascending order: median at n div 2, min first, max last,
\* max2 last but one, mean the sum div n; grapheme counts 10, 20, 30 give
\* median 20, mean 20, min 10, max 30, max2 20.
C7_StatisticsPerMetric ==
    /\ \A m \in Metrics :
          /\ StatReady(m) =>
                /\ Len(langs) >= 2
                /\ stat[m].median = RefAt(m, Len(langs) \div 2)
                /\ stat[m].min = RefAt(m, 0)
                /\ stat[m].max = RefAt(m, Len(langs) - 1)
                /\ stat[m].max2 = RefAt(m, Len(langs) - 2)
          /\ MeansReady =>
                /\ mean[m] * Len(langs) <= RefSum(m)
                /\ RefSum(m) < (mean[m] + 1) * Len(langs)
    /\ (pc = "done" /\ Len(langs) = 3 /\ ValuesOf("graphemes") = {10, 20, 30}) =>
          /\ stat["graphemes"] = [median |-> 20, min |-> 10, max |-> 30, max2 |-> 20]
          /\ mean["graphemes"] = 20

C7_Witness ==
    /\ pc = "done"
    /\ Len(langs) = 3
    /\ ValuesOf("graphemes") = {10, 20, 30}
    /\ stat["graphemes"] = [median |-> 20, min |-> 10, max |-> 30, max2 |-> 20]
    /\ mean["graphemes"] = 20
    /\ stat["utf8"] = [median |-> 30, min |-> 30, max |-> 80, max2 |-> 30]
    /\ stat["width"] = [median |-> 20, min |-> 20, max |-> 30, max2 |-> 20]

\* The cells print_count has printed: row of out, column, with the median
\* main() passes for the column.
PrintedCells ==
    {<<r, k>> \in (1..Len(out)) \X (1..Len(MetricOrder)) : out[r].tag = "tr"}

CellOf(rk) == out[rk[1]].cells[rk[2]]
MedianOf(rk) == stat[MetricOrder[rk[2]]].median

\* C8 as claimed: hue 120 when the value is larger than the median, hue 0
\* when it is smaller.
C8_HueGreenWhenLarger ==
    \A rk \in PrintedCells :
        /\ CellOf(rk).count > MedianOf(rk) => CellOf(rk).hue = 120
        /\ CellOf(rk).count < MedianOf(rk) => CellOf(rk).hue = 0

\* C8: hue 0 when the value is larger than the median, hue 120 when it is
\* smaller than or equal to the median.
C8_HueRedWhenLarger ==
    \A rk \in PrintedCells :
        /\ CellOf(rk).count > MedianOf(rk) => CellOf(rk).hue = 0
        /\ CellOf(rk).count <= MedianOf(rk) => CellOf(rk).hue = 120

C8_Witness ==
    /\ \E rk \in PrintedCells :
          CellOf(rk).count > MedianOf(rk) /\ CellOf(rk).hue = 0
    /\ \E rk \in PrintedCells :
          CellOf(rk).count < MedianOf(rk) /\ CellOf(rk).hue = 120

IsZero(x) == x.k = "fin" /\ x.num = 0

\* C9: the deviation printed for a value equal to the median is exactly 0,
\* for every median of a run, 0 included.
C9_ZeroDeviationAtMedian ==
    \A rk \in PrintedCells :
        CellOf(rk).count = MedianOf(rk) => IsZero(CellOf(rk).dev)

Fatal == pc \in {"panic", "err"}

\* C10 as claimed: nothing is printed before every statistic, the means
\* included, is computed, and no fatal outcome follows the first line.
C10_NoOutputBeforeAllStatistics ==
    /\ out /= <<>> => MeansReady
    /\ Fatal => out = <<>>

\* C10: nothing is printed before every included document is measured, one
\* after another in index order, and median, min, max and max2 of every
\* metric are computed (the means follow the table's head and cannot fail);
\* every fatal outcome precedes the first printed line.
C10_AllOrNothing ==
    /\ [](out /= <<>> =>
             /\ pc \in {"totals", "rows", "done"}
             /\ Len(langs) >= 2
             /\ \A m \in Metrics : StatReady(m))
    /\ [](Fatal => out = <<>>)
    /\ [][/\ Len(langs') /= Len(langs) =>
                /\ pc = "count"
                /\ pc' = "index"
                /\ out = <<>>
                /\ langs' = Append(langs, langs'[Len(langs')])
                /\ langs'[Len(langs')].code = <<entry.code>>
          /\ pc' = "count" => pc \in {"count", "index"}]_vars

C10_Witness ==
    /\ pc = "done"
    /\ Len(langs) = 3
    /\ Len(out) = 17
    /\ out[1].tag = "table"
    /\ out[17].tag = "/table"

=============================================================================
